---- MODULE Spec2Model ----
(***************************************************************************)
(* decompose: the orchestrator (src/src/executor.rs) and the process       *)
(* manager (src/src/process.rs) connected by the command queue and the     *)
(* event queue, over the dependency graph of src/src/graph.rs.             *)
(*                                                                         *)
(* A handle is the index of a program in the configuration (petgraph's     *)
(* NodeIndex).  Every handler of the orchestrator is one action: it        *)
(* consumes one event and appends all the commands it sends.  The queues   *)
(* (capacity 10 in the fixture of executor.rs) never fill up with the      *)
(* ensembles below, so a send never blocks; queues that do fill up are     *)
(* the subject of QueueSpec.                                               *)
(***************************************************************************)
EXTENDS Integers, Sequences, FiniteSets, TLC

VARIABLES
    cfg,          \* the validated configuration (read-only after Init)
    ex_pc,        \* where Executor::run is: start, init, loop, shutdown, done
    sd_call,      \* which call of shutdown() is waiting: inner (from process) or final
    pending,      \* init's local set of programs that have not reported Started
    running,      \* Executor.running
    status,       \* Executor.status
    result,       \* what run returned
    cmdq,         \* command queue, orchestrator -> process manager
    evq,          \* event queue, process manager -> orchestrator
    pm,           \* process manager: idle (in select), probing (inside start), gone
    pm_h,         \* the handle whose start is in progress
    procs,        \* ProcessManager.procs (the tracked handles)
    child,        \* the OS child of every program: none, alive, dead
    completed,    \* tracked programs whose child was consumed by the ready probe
    sent,         \* the signals the manager sent to every child, in order
    report,       \* what stop_program logged for every program
    sigint,       \* a SIGINT/SIGTERM is pending for the manager
    sigchld,      \* a SIGCHLD is pending for the manager
    sigCount,     \* number of SIGINT/SIGTERM received so far
    exitCount,    \* number of children that exited on their own
    startSent,    \* history: programs for which Start was emitted
    startedRecv,  \* history: programs whose Started the orchestrator consumed
    startedEmit,  \* history: programs whose Started the manager emitted
    stoppedEmit,  \* history: programs whose Stopped the manager emitted
    stopIgnored,  \* history: programs for which the manager ignored a Stop
    stoppedRecv,  \* history: programs whose Stopped the orchestrator consumed
    firstCrit,    \* history: the first Stopped of a critical, enabled program consumed
    errSeen,      \* history: an Err event was consumed
    sdSeen,       \* history: number of Shutdown events consumed
    sys,          \* validation: the parsed System handed to System::validate
    outcome,      \* validation: none, ok (a Graph was returned) or the error
    rs,           \* ready signal: the ReadySignal object being polled
    world,        \* ready signal: the clock, the port, the output file, the child
    polls,        \* ready signal: the results of poll() so far, in order
    pipe,         \* output bus: the reader handed to produce (the child's pipe)
    prod,         \* output bus: the producer (lines read so far, returned or not)
    bus,          \* output bus: the broadcast channel
    mon,          \* output bus: a subscriber that calls recv itself
    sink,         \* output bus: the subscriber run by consume
    sp,           \* start of a program: the statement reached, the subscriptions
    trav,         \* traversal: the graph, the handle and the visited set
    yielded,      \* traversal: what the iterators called so far yielded
    elist,        \* execution list: pending, running, ready, and what reap returned
    cap           \* capacity of the command and of the event queue; 0: never full

runvars == <<cfg, ex_pc, sd_call, pending, running, status, result, cmdq, evq,
             pm, pm_h, procs, child, completed, sent, report,
             sigint, sigchld, sigCount, exitCount,
             startSent, startedRecv, startedEmit, stoppedEmit, stopIgnored,
             stoppedRecv, firstCrit, errSeen, sdSeen>>

valvars == <<sys, outcome>>

probevars == <<rs, world, polls>>

busvars == <<pipe, prod, bus, mon, sink>>

startvars == <<sp>>

travvars == <<trav, yielded>>

listvars == <<elist>>

queuevars == <<cap>>

latevars == <<startvars, travvars, listvars, queuevars>>

\* What a step of the orchestrator or of the process manager leaves alone.
auxvars == <<valvars, probevars, busvars, latevars>>

vars == <<runvars, auxvars>>

exvars == <<ex_pc, sd_call, pending, running, status, result,
            startSent, startedRecv, stoppedRecv, firstCrit, errSeen, sdSeen>>
pmvars == <<pm, pm_h, procs, completed, sent, report,
            startedEmit, stoppedEmit, stopIgnored>>

-----------------------------------------------------------------------------
(* Bounds *)

MaxSignals == 2
MaxExits == 1

-----------------------------------------------------------------------------
(* Configurations: depends[i] is the depends list of the i-th program. *)

Single   == << <<>> >>
Pair     == << <<>>, <<1>> >>
Triangle == << <<>>, <<1>>, <<1, 2>> >>
Roots2   == << <<>>, <<>> >>
Diamond  == << <<>>, <<1>>, <<1>>, <<2, 3>> >>
Twice    == << <<>>, <<1, 1>> >>
Roots4   == << <<>>, <<>>, <<>>, <<>> >>

\* A system of plain programs: none critical, none disabled, ready = nothing,
\* no start_timeout.
Config(d) ==
    [depends |-> d, critical |-> {}, disabled |-> {},
     timer |-> {},              \* the programs with ready = timer
     start_timeout |-> FALSE,   \* whether the system sets start_timeout
     diehard |-> {}]            \* the programs that do not exit on SIGTERM

Configs ==
    { Config(Single),
      [Config(Single) EXCEPT !.critical = {1}],
      [Config(Single) EXCEPT !.timer = {1}, !.start_timeout = TRUE],
      [Config(Single) EXCEPT !.diehard = {1}],
      Config(Pair),
      [Config(Pair) EXCEPT !.critical = {1, 2}],
      [Config(Pair) EXCEPT !.disabled = {2}],
      [Config(Pair) EXCEPT !.disabled = {1}],
      [Config(Triangle) EXCEPT !.critical = {2}],
      Config(Roots2) }

NoStatus == [h |-> 0, st |-> "none"]

NoResult == [kind |-> "none", h |-> 0, st |-> "none"]

Enabled(c) == (1..Len(c.depends)) \ c.disabled

\* History: the first critical, enabled program whose Stopped was consumed.
NoteCritical(c, first, h, st) ==
    IF first = NoStatus /\ h \in c.critical /\ h \notin c.disabled
    THEN [h |-> h, st |-> st] ELSE first

-----------------------------------------------------------------------------
(* Dependency graph *)

Reverse(s) == [i \in 1..Len(s) |-> s[Len(s) + 1 - i]]

all(c) == 1..Len(c.depends)

allSeq(c) == [i \in 1..Len(c.depends) |-> i]

EdgesOf(c, i) == [k \in 1..Len(c.depends[i]) |-> <<c.depends[i][k], i>>]

RECURSIVE EdgesUpTo(_, _)
EdgesUpTo(c, i) == IF i = 0 THEN <<>> ELSE EdgesUpTo(c, i - 1) \o EdgesOf(c, i)

Edges(c) == EdgesUpTo(c, Len(c.depends))

dependencies(c, h) ==
    LET in == SelectSeq(Edges(c), LAMBDA e : e[2] = h)
    IN  Reverse([k \in 1..Len(in) |-> in[k][1]])

\* Neighbours listed from the oldest edge to the newest.
dependees_oldest_first(c, h) ==
    LET out == SelectSeq(Edges(c), LAMBDA e : e[1] = h)
    IN  [k \in 1..Len(out) |-> out[k][2]]

dependees(c, h) ==
    LET out == SelectSeq(Edges(c), LAMBDA e : e[1] = h)
    IN  Reverse([k \in 1..Len(out) |-> out[k][2]])

Range(s) == {s[k] : k \in 1..Len(s)}

roots(c) == SelectSeq(allSeq(c), LAMBDA i : dependencies(c, i) = <<>>)

leaves(c) == SelectSeq(allSeq(c), LAMBDA i : dependees(c, i) = <<>>)

\* expand without the filter on the dependencies.
expand_all(c, h, visited) == dependees(c, h)

\* expand that never takes a disabled dependency for ready.
expand_enabled(c, h, visited) ==
    SelectSeq(dependees(c, h),
              LAMBDA i : Range(dependencies(c, i)) \subseteq visited \ c.disabled)

\* expand that wants every dependency to be running still.
expand_running(c, h, visited) ==
    SelectSeq(dependees(c, h),
              LAMBDA i : Range(dependencies(c, i)) \subseteq visited \cap (running \cup {h}))

expand(c, h, visited) ==
    SelectSeq(dependees(c, h), LAMBDA i : Range(dependencies(c, i)) \subseteq visited)

\* expand_back without the filter on the dependees.
expand_back_all(c, h, visited) == dependencies(c, h)

expand_back(c, h, visited) ==
    SelectSeq(dependencies(c, h), LAMBDA i : Range(dependees(c, i)) \subseteq visited)

-----------------------------------------------------------------------------
(* Commands and events *)

Start(h) == [type |-> "Start", h |-> h]
Stop(h)  == [type |-> "Stop", h |-> h]

Started(h)     == [type |-> "Started", h |-> h, st |-> "none"]
Stopped(h, st) == [type |-> "Stopped", h |-> h, st |-> st]
Shutdown       == [type |-> "Shutdown", h |-> 0, st |-> "none"]
Err            == [type |-> "Err", h |-> 0, st |-> "none"]

Starts(s) == [k \in 1..Len(s) |-> Start(s[k])]
Stops(s)  == [k \in 1..Len(s) |-> Stop(s[k])]

RECURSIVE Flatten(_)
Flatten(ss) == IF ss = <<>> THEN <<>> ELSE Head(ss) \o Flatten(Tail(ss))

-----------------------------------------------------------------------------
(* Orchestrator *)

\* on_stopped that records the status of every critical stop.
on_stopped_overwrite(c, run, stat, h, st) ==
    IF h \in run
    THEN IF h \in c.critical /\ h \notin c.disabled
         THEN [running |-> run \ {h},
               status  |-> IF st # "none" THEN [h |-> h, st |-> st] ELSE stat,
               ok      |-> FALSE]
         ELSE [running |-> run \ {h}, status |-> stat, ok |-> TRUE]
    ELSE [running |-> run, status |-> stat, ok |-> TRUE]

\* on_stopped that never asks for a shutdown.
on_stopped_lenient(c, run, stat, h, st) ==
    IF h \in run
    THEN [running |-> run \ {h}, status |-> stat, ok |-> TRUE]
    ELSE [running |-> run, status |-> stat, ok |-> TRUE]

\* Executor::on_stopped: the new running set, the new status and the returned flag.
on_stopped(c, run, stat, h, st) ==
    IF h \in run
    THEN IF h \in c.critical /\ h \notin c.disabled
         THEN [running |-> run \ {h},
               status  |-> IF stat = NoStatus /\ st # "none"
                           THEN [h |-> h, st |-> st] ELSE stat,
               ok      |-> FALSE]
         ELSE [running |-> run \ {h}, status |-> stat, ok |-> TRUE]
    ELSE [running |-> run, status |-> stat, ok |-> TRUE]

\* The commands the two for loops at the head of Executor::shutdown send.
ShutdownEntry(c, run) ==
    LET notrun == SelectSeq(allSeq(c), LAMBDA n : n \notin run)
    IN  Stops(leaves(c))
        \o Stops(Flatten([k \in 1..Len(notrun) |->
                             expand_back(c, notrun[k], all(c) \ run)]))

\* The match at the end of Executor::run.
FinalResult(stat) ==
    IF stat = NoStatus THEN [kind |-> "ok", h |-> 0, st |-> "none"]
    ELSE IF stat.st = "success" THEN [kind |-> "ok", h |-> 0, st |-> "none"]
    ELSE [kind |-> "failed", h |-> stat.h, st |-> stat.st]

\* run calls shutdown() after init returned false or the loop was left: the
\* commands sent, and whether shutdown() has to wait for events.
FinalShutdown(run, stat, cmds) ==
    /\ cmdq' = cmdq \o cmds \o ShutdownEntry(cfg, run)
    /\ IF run = {}
       THEN /\ ex_pc' = "done"
            /\ result' = FinalResult(stat)
            /\ sd_call' = "none"
       ELSE /\ ex_pc' = "shutdown"
            /\ result' = result
            /\ sd_call' = "final"

\* process(Event::Shutdown) calls shutdown(); when that returns the loop is
\* left and run calls shutdown() once more.
InnerShutdown(run, stat) ==
    IF run = {}
    THEN FinalShutdown(run, stat, ShutdownEntry(cfg, run))
    ELSE /\ cmdq' = cmdq \o ShutdownEntry(cfg, run)
         /\ ex_pc' = "shutdown"
         /\ sd_call' = "inner"
         /\ result' = result

\* An Err event that starts a shutdown instead of ending run.
ReturnErrAfterShutdown ==
    /\ ex_pc' = "shutdown"
    /\ result' = result
    /\ sd_call' = "final"
    /\ errSeen' = TRUE

\* An Err event ends run: init, process and shutdown all return it.
ReturnErr ==
    /\ ex_pc' = "done"
    /\ result' = [kind |-> "error", h |-> 0, st |-> "none"]
    /\ sd_call' = "none"
    /\ errSeen' = TRUE

\* Executor::init up to its loop: pending is every program, the roots are started.
ExStart ==
    /\ ex_pc = "start"
    /\ ex_pc' = "init"
    /\ cmdq' = cmdq \o Starts(roots(cfg))
    /\ startSent' = startSent \cup Range(roots(cfg))
    /\ UNCHANGED auxvars
    /\ UNCHANGED <<cfg, sd_call, pending, running, status, result, evq,
                   startedRecv, stoppedRecv, firstCrit, errSeen, sdSeen,
                   sigint, sigchld, sigCount, exitCount, child>>
    /\ UNCHANGED pmvars

\* One iteration of the loop of Executor::init.
ExInit ==
    /\ ex_pc = "init"
    /\ evq # <<>>
    /\ LET e == Head(evq) IN
       /\ evq' = Tail(evq)
       /\ CASE e.type = "Started" ->
                 LET pend == pending \ {e.h}
                     new  == expand(cfg, e.h, all(cfg) \ pend)
                 IN  /\ pending' = pend
                     /\ running' = running \cup {e.h}
                     /\ cmdq' = cmdq \o Starts(new)
                     /\ startSent' = startSent \cup Range(new)
                     /\ startedRecv' = startedRecv \cup {e.h}
                     /\ ex_pc' = IF pend = {} THEN "loop" ELSE "init"
                     /\ UNCHANGED <<sd_call, status, result, stoppedRecv,
                                    firstCrit, errSeen, sdSeen>>
            [] e.type = "Stopped" ->
                 LET r == on_stopped(cfg, running, status, e.h, e.st)
                 IN  /\ running' = r.running
                     /\ status' = r.status
                     /\ stoppedRecv' = stoppedRecv \cup {e.h}
                     /\ firstCrit' = NoteCritical(cfg, firstCrit, e.h, e.st)
                     /\ IF r.ok
                        THEN UNCHANGED <<ex_pc, sd_call, result, cmdq>>
                        ELSE FinalShutdown(r.running, r.status, <<>>)
                     /\ UNCHANGED <<pending, startSent, startedRecv, errSeen, sdSeen>>
            [] e.type = "Shutdown" ->
                 /\ FinalShutdown(running, status, <<>>)
                 /\ sdSeen' = sdSeen + 1
                 /\ UNCHANGED <<pending, running, status, startSent, startedRecv,
                                stoppedRecv, firstCrit, errSeen>>
            [] e.type = "Err" ->
                 /\ ReturnErr
                 /\ UNCHANGED <<pending, running, status, cmdq, startSent,
                                startedRecv, stoppedRecv, firstCrit, sdSeen>>
    /\ UNCHANGED auxvars
    /\ UNCHANGED <<cfg, sigint, sigchld, sigCount, exitCount, child>>
    /\ UNCHANGED pmvars

\* is_alive that never reports an empty running set.
is_alive_always(run) == TRUE

\* Executor::is_alive.
is_alive(run) == run # {}

\* One iteration of the loop of Executor::run: process(event), then is_alive().
ExLoop ==
    /\ ex_pc = "loop"
    /\ evq # <<>>
    /\ LET e == Head(evq) IN
       /\ evq' = Tail(evq)
       /\ CASE e.type = "Started" ->
                 /\ running' = running \cup {e.h}
                 /\ startedRecv' = startedRecv \cup {e.h}
                 /\ UNCHANGED <<ex_pc, sd_call, status, result, cmdq, pending,
                                startSent, stoppedRecv, firstCrit, errSeen, sdSeen>>
            [] e.type = "Stopped" ->
                 LET r == on_stopped(cfg, running, status, e.h, e.st)
                 IN  /\ running' = r.running
                     /\ status' = r.status
                     /\ stoppedRecv' = stoppedRecv \cup {e.h}
                     /\ firstCrit' = NoteCritical(cfg, firstCrit, e.h, e.st)
                     /\ IF r.ok /\ is_alive(r.running)
                        THEN UNCHANGED <<ex_pc, sd_call, result, cmdq>>
                        ELSE FinalShutdown(r.running, r.status, <<>>)
                     /\ UNCHANGED <<pending, startSent, startedRecv, errSeen, sdSeen>>
            [] e.type = "Shutdown" ->
                 /\ InnerShutdown(running, status)
                 /\ sdSeen' = sdSeen + 1
                 /\ UNCHANGED <<pending, running, status, startSent, startedRecv,
                                stoppedRecv, firstCrit, errSeen>>
            [] e.type = "Err" ->
                 /\ ReturnErr
                 /\ UNCHANGED <<pending, running, status, cmdq, startSent,
                                startedRecv, stoppedRecv, firstCrit, sdSeen>>
    /\ UNCHANGED auxvars
    /\ UNCHANGED <<cfg, sigint, sigchld, sigCount, exitCount, child>>
    /\ UNCHANGED pmvars

\* shutdown() returned Ok: the inner call is followed by the final one, the
\* final one by the match on status.
AfterShutdown(run, stat, cmds) ==
    IF run # {}
    THEN /\ cmdq' = cmdq \o cmds
         /\ UNCHANGED <<ex_pc, sd_call, result>>
    ELSE IF sd_call = "inner"
         THEN FinalShutdown(run, stat, cmds)
         ELSE /\ cmdq' = cmdq \o cmds
              /\ ex_pc' = "done"
              /\ sd_call' = "none"
              /\ result' = FinalResult(stat)

\* A Shutdown event during shutdown that stops the leaves again.
ShutdownAgainStops(c) == Stops(leaves(c))

\* The commands shutdown() sends for a Shutdown event that arrives while it waits.
ShutdownAgain(c) == <<>>

\* A Started event during shutdown that unlocks the dependees as init does.
StartedInShutdown_unlocks(c, h) == <<Stop(h)>> \o Starts(expand(c, h, all(c)))

\* The commands shutdown() sends for a Started event: the program is
\* stopped at once.
StartedInShutdown(c, h) == <<Stop(h)>>

\* One iteration of the while loop of Executor::shutdown.
ExShutdown ==
    /\ ex_pc = "shutdown"
    /\ evq # <<>>
    /\ LET e == Head(evq) IN
       /\ evq' = Tail(evq)
       /\ CASE e.type = "Started" ->
                 /\ running' = running \cup {e.h}
                 /\ startedRecv' = startedRecv \cup {e.h}
                 /\ AfterShutdown(running \cup {e.h}, status, StartedInShutdown(cfg, e.h))
                 /\ UNCHANGED <<status, pending, startSent, stoppedRecv,
                                firstCrit, errSeen, sdSeen>>
            [] e.type = "Stopped" ->
                 LET r == on_stopped(cfg, running, status, e.h, e.st)
                 IN  /\ running' = r.running
                     /\ status' = r.status
                     /\ stoppedRecv' = stoppedRecv \cup {e.h}
                     /\ firstCrit' = NoteCritical(cfg, firstCrit, e.h, e.st)
                     /\ AfterShutdown(r.running, r.status,
                            Stops(expand_back(cfg, e.h, all(cfg) \ r.running)))
                     /\ UNCHANGED <<pending, startSent, startedRecv, errSeen, sdSeen>>
            [] e.type = "Shutdown" ->
                 /\ sdSeen' = sdSeen + 1
                 /\ AfterShutdown(running, status, ShutdownAgain(cfg))
                 /\ UNCHANGED <<pending, running, status, startSent, startedRecv,
                                stoppedRecv, firstCrit, errSeen>>
            [] e.type = "Err" ->
                 /\ ReturnErr
                 /\ UNCHANGED <<pending, running, status, cmdq, startSent,
                                startedRecv, stoppedRecv, firstCrit, sdSeen>>
    /\ UNCHANGED auxvars
    /\ UNCHANGED <<cfg, sigint, sigchld, sigCount, exitCount, child>>
    /\ UNCHANGED pmvars

-----------------------------------------------------------------------------
(* Process manager *)

\* The status carried by Stopped: none for a disabled program.
ExitStatuses(c, h) == IF h \in c.disabled THEN {"none"} ELSE {"success", "failure"}

\* ProcessManager::run, Command::Start: start() up to the ready probe.  A
\* disabled program is not spawned: it is tracked and reported Started.
PMStartSpawn ==
    /\ ex_pc # "done"
    /\ pm = "idle"
    /\ cmdq # <<>>
    /\ Head(cmdq).type = "Start"
    /\ cmdq' = Tail(cmdq)
    /\ LET h == Head(cmdq).h IN
       IF h \in cfg.disabled
       THEN /\ procs' = procs \cup {h}
            /\ evq' = Append(evq, Started(h))
            /\ startedEmit' = startedEmit \cup {h}
            /\ UNCHANGED <<pm, pm_h, child>>
       ELSE /\ child' = [child EXCEPT ![h] = "alive"]
            /\ pm' = "probing"
            /\ pm_h' = h
            /\ UNCHANGED <<procs, evq, startedEmit>>
    /\ UNCHANGED auxvars
    /\ UNCHANGED <<cfg, sigint, sigchld, sigCount, exitCount, stoppedEmit,
                   completed, sent, report, stopIgnored>>
    /\ UNCHANGED exvars

\* A failed spawn that leaves a record in the table.
PMStartSpawnFailTracked ==
    /\ ex_pc # "done"
    /\ pm = "idle"
    /\ cmdq # <<>>
    /\ Head(cmdq).type = "Start"
    /\ Head(cmdq).h \notin cfg.disabled
    /\ cmdq' = Tail(cmdq)
    /\ evq' = Append(evq, Err)
    /\ procs' = procs \cup {Head(cmdq).h}
    /\ UNCHANGED auxvars
    /\ UNCHANGED <<cfg, child, sigint, sigchld, sigCount, exitCount>>
    /\ UNCHANGED <<pm, pm_h, completed, sent, report, startedEmit, stoppedEmit, stopIgnored>>
    /\ UNCHANGED exvars

\* create_child_process fails: start() sends Err and nothing is spawned.
PMStartSpawnFail ==
    /\ ex_pc # "done"
    /\ pm = "idle"
    /\ cmdq # <<>>
    /\ Head(cmdq).type = "Start"
    /\ Head(cmdq).h \notin cfg.disabled
    /\ cmdq' = Tail(cmdq)
    /\ evq' = Append(evq, Err)
    /\ UNCHANGED auxvars
    /\ UNCHANGED <<cfg, child, sigint, sigchld, sigCount, exitCount>>
    /\ UNCHANGED pmvars
    /\ UNCHANGED exvars

\* The ready probe reported ready: start() tracks the process and sends
\* Started.  A child that had exited by then was awaited by the probe
\* (ready = completed): its Process holds no child.
PMStartReady ==
    /\ ex_pc # "done"
    /\ pm = "probing"
    /\ pm' = "idle"
    /\ pm_h' = 0
    /\ procs' = procs \cup {pm_h}
    /\ evq' = Append(evq, Started(pm_h))
    /\ startedEmit' = startedEmit \cup {pm_h}
    /\ completed' = IF child[pm_h] = "dead" THEN completed \cup {pm_h} ELSE completed
    /\ UNCHANGED auxvars
    /\ UNCHANGED <<cfg, cmdq, child, sigint, sigchld, sigCount, exitCount,
                   stoppedEmit, sent, report, stopIgnored>>
    /\ UNCHANGED exvars

\* A drop that sends nothing.
DropChildQuiet(h) == sent

\* Dropping a child (kill_on_drop): SIGKILL, if it is still alive.
DropChild(h) ==
    IF child[h] = "alive" THEN [sent EXCEPT ![h] = Append(@, "KILL")] ELSE sent

\* The ready probe failed, or start_timeout expired (the only way a timer
\* probe fails): the child is dropped and start() sends Err.
PMStartFail ==
    /\ ex_pc # "done"
    /\ pm = "probing"
    /\ pm_h \in cfg.timer => cfg.start_timeout
    /\ pm' = "idle"
    /\ pm_h' = 0
    /\ evq' = Append(evq, Err)
    /\ child' = [child EXCEPT ![pm_h] = "dead"]
    /\ sent' = DropChild(pm_h)
    /\ sigchld' = (sigchld \/ child[pm_h] = "alive")
    /\ UNCHANGED auxvars
    /\ UNCHANGED <<cfg, cmdq, procs, sigint, sigCount, exitCount,
                   startedEmit, stoppedEmit, completed, report, stopIgnored>>
    /\ UNCHANGED exvars

\* terminate_wait that kills at once.
terminate_wait_kill_first(c, h, reaped) ==
    IF h \in c.disabled \/ h \in completed
    THEN [sigs |-> <<>>, rep |-> "nothing"]
    ELSE [sigs |-> <<"KILL">>, rep |-> "killed"]

\* terminate_wait and the line stop_program logs.  A Process without child
\* has nothing to terminate; kill(2) fails for a child that check_alive has
\* reaped; otherwise SIGTERM is sent, and a child that has not exited within
\* terminate_timeout (a program that does not exit on SIGTERM) is dropped,
\* which kills it.
terminate_wait(c, h, reaped) ==
    IF h \in c.disabled \/ h \in completed
    THEN [sigs |-> <<>>, rep |-> "nothing"]
    ELSE IF reaped
    THEN [sigs |-> <<>>, rep |-> "killed"]
    ELSE IF child[h] = "alive" /\ h \in c.diehard
    THEN [sigs |-> <<"TERM", "KILL">>, rep |-> "killed"]
    ELSE [sigs |-> <<"TERM">>, rep |-> "terminated"]

\* ProcessManager::stop for a tracked handle: stop_program, then Stopped.
StopTracked(h, st) ==
    /\ procs' = procs \ {h}
    /\ LET o == terminate_wait(cfg, h, FALSE) IN
          /\ o.sigs = <<"TERM", "KILL">> => st # "success"
          /\ sent' = [sent EXCEPT ![h] = @ \o o.sigs]
          /\ report' = [report EXCEPT ![h] = o.rep]
    /\ child' = [child EXCEPT ![h] = IF @ = "alive" THEN "dead" ELSE @]
    /\ sigchld' = (sigchld \/ child[h] = "alive")
    /\ evq' = Append(evq, Stopped(h, st))
    /\ stoppedEmit' = stoppedEmit \cup {h}

\* A stop of an unknown handle that reports Stopped all the same.
StopUnknownReports(h) ==
    /\ stopIgnored' = stopIgnored \cup {h}
    /\ evq' = Append(evq, Stopped(h, "none"))
    /\ stoppedEmit' = stoppedEmit \cup {h}
    /\ UNCHANGED <<procs, child, sigchld, sent, report>>

\* ProcessManager::stop for a handle that is not tracked: a warning, nothing else.
StopUnknown(h) ==
    /\ stopIgnored' = stopIgnored \cup {h}
    /\ UNCHANGED <<procs, child, sigchld, evq, stoppedEmit, sent, report>>

\* ProcessManager::run, Command::Stop.
PMStop ==
    /\ ex_pc # "done"
    /\ pm = "idle"
    /\ cmdq # <<>>
    /\ Head(cmdq).type = "Stop"
    /\ cmdq' = Tail(cmdq)
    /\ LET h == Head(cmdq).h IN
       IF h \in procs
       THEN /\ \E st \in ExitStatuses(cfg, h) : StopTracked(h, st)
            /\ UNCHANGED stopIgnored
       ELSE StopUnknown(h)
    /\ UNCHANGED auxvars
    /\ UNCHANGED <<cfg, pm, pm_h, sigint, sigCount, exitCount, startedEmit, completed>>
    /\ UNCHANGED exvars

\* ProcessManager::run, SIGCHLD: check_alive stops one tracked process that
\* is no longer alive (a disabled one has pid 0: waitpid decides).
PMCheckAlive ==
    /\ ex_pc # "done"
    /\ pm = "idle"
    /\ sigchld
    /\ LET gone == {h \in procs : child[h] = "dead"} IN
       \/ /\ gone = {}
          /\ sigchld' = FALSE
          /\ UNCHANGED <<procs, child, evq, stoppedEmit, sent, report>>
       \/ \E h \in gone \cup (procs \cap cfg.disabled) :
             \E st \in ExitStatuses(cfg, h) :
                /\ procs' = procs \ {h}
                /\ LET o == terminate_wait(cfg, h, TRUE) IN
                      /\ sent' = [sent EXCEPT ![h] = @ \o o.sigs]
                      /\ report' = [report EXCEPT ![h] = o.rep]
                /\ evq' = Append(evq, Stopped(h, st))
                /\ stoppedEmit' = stoppedEmit \cup {h}
                /\ sigchld' = (gone \ {h} # {})
                /\ UNCHANGED child
    /\ UNCHANGED auxvars
    /\ UNCHANGED <<cfg, cmdq, pm, pm_h, sigint, sigCount, exitCount, startedEmit,
                   completed, stopIgnored>>
    /\ UNCHANGED exvars

\* ProcessManager::run, SIGINT or SIGTERM: send Shutdown.
PMSignal ==
    /\ ex_pc # "done"
    /\ pm = "idle"
    /\ sigint
    /\ sigint' = FALSE
    /\ evq' = Append(evq, Shutdown)
    /\ UNCHANGED auxvars
    /\ UNCHANGED <<cfg, cmdq, child, sigchld, sigCount, exitCount>>
    /\ UNCHANGED pmvars
    /\ UNCHANGED exvars

\* A manager that goes away and leaves its children alone.
PMTeardownLeak ==
    /\ ex_pc = "done"
    /\ pm # "gone"
    /\ pm' = "gone"
    /\ pm_h' = 0
    /\ procs' = {}
    /\ UNCHANGED auxvars
    /\ UNCHANGED <<cfg, cmdq, evq, child, sent, sigint, sigchld, sigCount, exitCount,
                   startedEmit, stoppedEmit, completed, report, stopIgnored>>
    /\ UNCHANGED exvars

\* run returned: the channels close, the manager goes away and every child
\* it still holds is killed (kill_on_drop).
PMTeardown ==
    /\ ex_pc = "done"
    /\ pm # "gone"
    /\ pm' = "gone"
    /\ pm_h' = 0
    /\ procs' = {}
    /\ child' = [h \in DOMAIN child |-> IF child[h] = "alive" THEN "dead" ELSE child[h]]
    /\ sent' = [h \in DOMAIN sent |-> DropChild(h)[h]]
    /\ UNCHANGED auxvars
    /\ UNCHANGED <<cfg, cmdq, evq, sigint, sigchld, sigCount, exitCount,
                   startedEmit, stoppedEmit, completed, report, stopIgnored>>
    /\ UNCHANGED exvars

-----------------------------------------------------------------------------
(* Environment *)

\* The operator sends SIGINT or SIGTERM to the orchestrator while run is
\* going on (a signal that arrives while one is pending changes nothing).
Signal ==
    /\ ex_pc # "done"
    /\ sigCount < MaxSignals
    /\ ~sigint
    /\ sigCount' = sigCount + 1
    /\ sigint' = TRUE
    /\ UNCHANGED auxvars
    /\ UNCHANGED <<cfg, cmdq, evq, child, sigchld, exitCount>>
    /\ UNCHANGED pmvars
    /\ UNCHANGED exvars

\* A child exits on its own while run is going on.
ChildExit ==
    /\ ex_pc # "done"
    /\ exitCount < MaxExits
    /\ \E h \in all(cfg) :
          /\ child[h] = "alive"
          /\ child' = [child EXCEPT ![h] = "dead"]
    /\ exitCount' = exitCount + 1
    /\ sigchld' = TRUE
    /\ UNCHANGED auxvars
    /\ UNCHANGED <<cfg, cmdq, evq, sigint, sigCount>>
    /\ UNCHANGED pmvars
    /\ UNCHANGED exvars

-----------------------------------------------------------------------------

\* No system is being validated.
ValIdle ==
    /\ sys = <<>>
    /\ outcome = "none"

\* No ready signal has been created.
ProbeIdle ==
    /\ rs = [kind |-> "none"]
    /\ world = [now |-> 0, listening |-> FALSE, file |-> <<>>, exit |-> "alive", reaped |-> FALSE]
    /\ polls = <<>>

\* No output bus has been created.
BusIdle ==
    /\ pipe = [present |-> FALSE, lines |-> <<>>]
    /\ prod = [pos |-> 0, returned |-> TRUE]
    /\ bus = [sent |-> <<>>, closed |-> TRUE]
    /\ mon = [next |-> 0, got |-> <<>>, lagged |-> 0, closed |-> FALSE]
    /\ sink = [next |-> 0, written |-> <<>>, lagged |-> 0, end |-> "no"]

\* No program is being started.
StartIdle == sp = [pc |-> -1, stream |-> "none", sinkAt |-> -1, monAt |-> -1]

\* No graph is being traversed.
TravIdle ==
    /\ trav = [c |-> Config(Single), h |-> 1, visited |-> {}]
    /\ yielded = <<>>

\* No execution list has been made.
ListIdle ==
    elist = [sys |-> <<>>, pending |-> <<>>, running |-> <<>>, ready |-> {},
             reaped |-> <<>>, state |-> "none"]

\* The queues are large enough for a send never to wait.
QueueIdle == cap = 0

LateIdle == StartIdle /\ TravIdle /\ ListIdle /\ QueueIdle

AuxIdle == ValIdle /\ ProbeIdle /\ BusIdle /\ LateIdle

\* Executor::new and ProcessManager::new over the graph of cfg.
RunInit ==
    /\ ex_pc = "start"
    /\ sd_call = "none"
    /\ pending = all(cfg)
    /\ running = {}
    /\ status = NoStatus
    /\ result = NoResult
    /\ cmdq = <<>>
    /\ evq = <<>>
    /\ pm = "idle"
    /\ pm_h = 0
    /\ procs = {}
    /\ child = [h \in all(cfg) |-> "none"]
    /\ completed = {}
    /\ sent = [h \in all(cfg) |-> <<>>]
    /\ report = [h \in all(cfg) |-> "none"]
    /\ stopIgnored = {}
    /\ sigint = FALSE
    /\ sigchld = FALSE
    /\ sigCount = 0
    /\ exitCount = 0
    /\ startSent = {}
    /\ startedRecv = {}
    /\ startedEmit = {}
    /\ stoppedEmit = {}
    /\ stoppedRecv = {}
    /\ firstCrit = NoStatus
    /\ errSeen = FALSE
    /\ sdSeen = 0

Init ==
    /\ cfg \in Configs
    /\ RunInit
    /\ AuxIdle

Next ==
    \/ ExStart
    \/ ExInit
    \/ ExLoop
    \/ ExShutdown
    \/ PMStartSpawn
    \/ PMStartSpawnFail
    \/ PMStartReady
    \/ PMStartFail
    \/ PMStop
    \/ PMCheckAlive
    \/ PMSignal
    \/ PMTeardown
    \/ Signal
    \/ ChildExit

Spec == Init /\ [][Next]_vars

\* Runs over a diamond, and over a configuration whose second program names
\* the first one twice in its depends list.  The manager keeps one Process
\* per handle: one that is started again replaces the one in the table.
ShapesInit ==
    /\ cfg \in {Config(Diamond), Config(Twice)}
    /\ RunInit
    /\ AuxIdle

ShapesSpec == ShapesInit /\ [][Next]_vars

\* Runs in which no start fails.  The orchestrator and the manager are
\* scheduled fairly; a ready probe may stay pending forever.
NextLive ==
    \/ ExStart
    \/ ExInit
    \/ ExLoop
    \/ ExShutdown
    \/ PMStartSpawn
    \/ PMStartReady
    \/ PMStop
    \/ PMCheckAlive
    \/ PMSignal
    \/ PMTeardown
    \/ Signal
    \/ ChildExit

Fairness ==
    /\ WF_vars(ExStart)
    /\ WF_vars(ExInit)
    /\ WF_vars(ExLoop)
    /\ WF_vars(ExShutdown)
    /\ WF_vars(PMStartSpawn)
    /\ WF_vars(PMStop)
    /\ WF_vars(PMCheckAlive)
    /\ WF_vars(PMSignal)
    /\ WF_vars(PMTeardown)

LiveSpec == Init /\ [][NextLive]_vars /\ Fairness

\* Runs in which every ready probe eventually succeeds and no child exits
\* on its own.
NextStartup ==
    \/ ExStart
    \/ ExInit
    \/ ExLoop
    \/ ExShutdown
    \/ PMStartSpawn
    \/ PMStartReady
    \/ PMStop
    \/ PMCheckAlive
    \/ PMSignal
    \/ PMTeardown
    \/ Signal

StartupSpec == Init /\ [][NextStartup]_vars /\ Fairness /\ WF_vars(PMStartReady)

-----------------------------------------------------------------------------
(* Validation: System::validate (config.rs), then Graph::from_config and   *)
(* Graph::validate (graph.rs).  A system is its list of programs, a        *)
(* program its name and its depends list.                                  *)

MaxPrograms == 3
MaxDepends == 2

Names == <<"a", "b", "c">>

\* The depends lists: up to MaxDepends different names.
DependsLists ==
    UNION {{[k \in 1..n |-> Names[ix[k]]] :
               ix \in {jx \in [1..n -> 1..Len(Names)] :
                          \A k \in 1..(n - 1) : jx[k] < jx[k + 1]}} :
           n \in 0..MaxDepends}

Programs == [name : Range(Names), depends : DependsLists]

Systems == UNION {[1..n -> Programs] : n \in 0..MaxPrograms}

\* The loop of System::validate from program i on.
RECURSIVE validate_loop(_, _, _, _)
validate_loop(s, i, names, found_starting_point) ==
    IF i > Len(s)
    THEN IF found_starting_point THEN "ok" ELSE "no entry point"
    ELSE IF s[i].name \in names
         THEN "duplicate"
         ELSE validate_loop(s, i + 1, names \cup {s[i].name},
                            found_starting_point \/ s[i].depends = <<>>)

System_validate(s) == validate_loop(s, 1, {}, FALSE)

\* Graph::from_config: the node of a name is the last program inserted
\* under that name.
mapping(s) ==
    [n \in {s[i].name : i \in 1..Len(s)} |->
        CHOOSE i \in 1..Len(s) :
            s[i].name = n /\ \A j \in 1..Len(s) : s[j].name = n => j <= i]

\* Graph::from_config: the edges, from the dependency to the dependee.
graph_edges(s) ==
    UNION {{<<mapping(s)[s[i].depends[k]], mapping(s)[s[i].name]>> :
               k \in 1..Len(s[i].depends)} : i \in 1..Len(s)}

externals_incoming(n, edges) == {v \in 1..n : \A e \in edges : e[2] # v}

successors(edges, S) == {e[2] : e \in {f \in edges : f[1] \in S}}

RECURSIVE reachable(_, _, _)
reachable(edges, S, k) ==
    IF k = 0 THEN S ELSE reachable(edges, S \cup successors(edges, S), k - 1)

\* petgraph::algo::is_cyclic_directed: some node reaches itself.
is_cyclic_directed(n, edges) ==
    \E v \in 1..n : v \in reachable(edges, successors(edges, {v}), n)

\* Graph::validate without the test for cycles.
Graph_validate_roots_only(n, edges) ==
    IF externals_incoming(n, edges) = {} THEN "no roots" ELSE "ok"

Graph_validate(n, edges) ==
    IF externals_incoming(n, edges) = {} THEN "no roots"
    ELSE IF is_cyclic_directed(n, edges) THEN "cycles"
    ELSE "ok"

from_config(s) ==
    IF \E i \in 1..Len(s) : \E k \in 1..Len(s[i].depends) :
          s[i].depends[k] \notin DOMAIN mapping(s)
    THEN "no such program"
    ELSE Graph_validate(Len(s), graph_edges(s))

\* main: System::from_file (which ends in System::validate), then
\* Executor::from_config, which builds the graph.
Load ==
    /\ outcome = "none"
    /\ outcome' = IF System_validate(sys) # "ok" THEN System_validate(sys)
                  ELSE from_config(sys)
    /\ UNCHANGED sys
    /\ UNCHANGED <<runvars, probevars, busvars, latevars>>

ValidateInit ==
    /\ cfg = Config(Single)
    /\ RunInit
    /\ ProbeIdle
    /\ BusIdle
    /\ LateIdle
    /\ sys \in Systems
    /\ outcome = "none"

ValidateNext == Load

ValidateSpec == ValidateInit /\ [][ValidateNext]_vars

-----------------------------------------------------------------------------
(* Ready signals (readysignals.rs): one ReadySignal object, polled again   *)
(* and again while its environment changes.  A poll result is true, false  *)
(* or err.                                                                 *)

MaxPolls == 3
MaxFile == 3
MaxTime == 2

\* The bytes a child writes: two letters and the line terminator.
Chars == {"r", "x", "\n"}

\* The regex of the Stdout signal here is ^rx$.
Regex_is_match(line) == line = <<"r", "x">>

\* The duration of the Timer signal, in ticks of the clock.
TimerDur == 1

World0 == [now |-> 0, listening |-> FALSE, file |-> <<>>, exit |-> "alive", reaped |-> FALSE]

Nothing_new == [kind |-> "nothing"]
Manual_new == [kind |-> "manual", prompt |-> TRUE]
Timer_new(now) == [kind |-> "timer", end |-> now + TimerDur]
Port_new == [kind |-> "port"]
Stdout_new == [kind |-> "stdout", reader |-> TRUE, pos |-> 0]
Completed_new == [kind |-> "completed", ready |-> FALSE]

Nothing_poll(o, w) == [rs |-> o, world |-> w, res |-> "true"]

\* The prompt is taken at the first poll, whether it fails or not.
Manual_poll(o, w, fail) ==
    IF o.prompt
    THEN [rs |-> [o EXCEPT !.prompt = FALSE], world |-> w,
          res |-> IF fail THEN "err" ELSE "true"]
    ELSE [rs |-> o, world |-> w, res |-> "true"]

Timer_poll(o, w) ==
    [rs |-> o, world |-> w, res |-> IF w.now >= o.end THEN "true" ELSE "false"]

\* Every poll connects anew.
Port_poll(o, w) ==
    [rs |-> o, world |-> w, res |-> IF w.listening THEN "true" ELSE "false"]

\* BufRead::read_line from position pos: up to and including the next
\* terminator, or up to the end of the file when there is none yet.
read_line(file, pos) ==
    LET rest == SubSeq(file, pos + 1, Len(file))
        nls == {k \in 1..Len(rest) : rest[k] = "\n"}
    IN  IF nls = {} THEN rest
        ELSE SubSeq(rest, 1, CHOOSE k \in nls : \A j \in nls : k <= j)

RECURSIVE trim_end_matches(_)
trim_end_matches(line) ==
    IF line # <<>> /\ line[Len(line)] \in {"\r", "\n"}
    THEN trim_end_matches(SubSeq(line, 1, Len(line) - 1))
    ELSE line

\* The reader is taken first: a failed read leaves the signal without one.
Stdout_poll(o, w, fail) ==
    IF ~o.reader THEN [rs |-> o, world |-> w, res |-> "true"]
    ELSE IF fail THEN [rs |-> [o EXCEPT !.reader = FALSE], world |-> w, res |-> "err"]
    ELSE LET raw == read_line(w.file, o.pos)
         IN  IF ~Regex_is_match(trim_end_matches(raw))
             THEN [rs |-> [o EXCEPT !.pos = @ + Len(raw)], world |-> w, res |-> "false"]
             ELSE [rs |-> [o EXCEPT !.reader = FALSE, !.pos = @ + Len(raw)],
                   world |-> w, res |-> "true"]

\* waitpid(pid, None) returns once the child has changed state and reaps
\* it; a second waitpid fails (ECHILD).
Completed_poll(o, w) ==
    IF o.ready THEN [rs |-> o, world |-> w, res |-> "true"]
    ELSE IF w.reaped THEN [rs |-> o, world |-> w, res |-> "err"]
    ELSE IF w.exit \in {"success", "failure"}
         THEN [rs |-> [o EXCEPT !.ready = TRUE], world |-> [w EXCEPT !.reaped = TRUE],
               res |-> "true"]
         ELSE [rs |-> o, world |-> [w EXCEPT !.reaped = TRUE], res |-> "false"]

poll(o, w, fail) ==
    CASE o.kind = "nothing"   -> Nothing_poll(o, w)
      [] o.kind = "manual"    -> Manual_poll(o, w, fail)
      [] o.kind = "timer"     -> Timer_poll(o, w)
      [] o.kind = "port"      -> Port_poll(o, w)
      [] o.kind = "stdout"    -> Stdout_poll(o, w, fail)
      [] o.kind = "completed" -> Completed_poll(o, w)

\* One call of poll().  The poll of Completed blocks in waitpid while the
\* child is alive.
Poll ==
    /\ Len(polls) < MaxPolls
    /\ rs.kind = "completed" => (rs.ready \/ world.reaped \/ world.exit # "alive")
    /\ \E fail \in BOOLEAN :
          LET r == poll(rs, world, fail)
          IN  /\ rs' = r.rs
              /\ world' = r.world
              /\ polls' = Append(polls, r.res)
    /\ UNCHANGED <<runvars, valvars, busvars, latevars>>

\* The clock of the Timer signal advances.
Tick ==
    /\ rs.kind = "timer"
    /\ world.now < MaxTime
    /\ world' = [world EXCEPT !.now = @ + 1]
    /\ UNCHANGED <<rs, polls, runvars, valvars, busvars, latevars>>

\* The program starts to listen on the port of the Port signal.
PortOpen ==
    /\ rs.kind = "port"
    /\ ~world.listening
    /\ world' = [world EXCEPT !.listening = TRUE]
    /\ UNCHANGED <<rs, polls, runvars, valvars, busvars, latevars>>

\* The program closes its listening socket, or exits.
PortClose ==
    /\ rs.kind = "port"
    /\ world.listening
    /\ world' = [world EXCEPT !.listening = FALSE]
    /\ UNCHANGED <<rs, polls, runvars, valvars, busvars, latevars>>

\* The program writes one more byte to its output file.
Write ==
    /\ rs.kind = "stdout"
    /\ Len(world.file) < MaxFile
    /\ \E c \in Chars : world' = [world EXCEPT !.file = Append(@, c)]
    /\ UNCHANGED <<rs, polls, runvars, valvars, busvars, latevars>>

\* The program of the Completed signal exits, or is killed by a signal.
Exit ==
    /\ rs.kind = "completed"
    /\ world.exit = "alive"
    /\ \E st \in {"success", "failure", "signaled"} :
          world' = [world EXCEPT !.exit = st]
    /\ UNCHANGED <<rs, polls, runvars, valvars, busvars, latevars>>

ProbeInit ==
    /\ cfg = Config(Single)
    /\ RunInit
    /\ ValIdle
    /\ BusIdle
    /\ LateIdle
    /\ world = World0
    /\ rs \in {Nothing_new, Manual_new, Timer_new(world.now), Port_new,
               Stdout_new, Completed_new}
    /\ polls = <<>>

ProbeNext ==
    \/ Poll
    \/ Tick
    \/ PortOpen
    \/ PortClose
    \/ Write
    \/ Exit

ProbeSpec == ProbeInit /\ [][ProbeNext]_vars

-----------------------------------------------------------------------------
(* Output bus (output.rs): produce reads the pipe of a child line by line  *)
(* and sends every line on a broadcast channel; a sink runs consume, and a *)
(* second subscriber (a test, a ready probe) calls recv itself.  A line   *)
(* of the pipe is its text, one token, and its terminator bytes.           *)

MaxLines == 17

\* make_channel: broadcast::channel(16).
Capacity == 16

\* n lines with the terminator term, the last one with lastTerm; the text
\* of the k-th line is the numeral of k.
RawLines(n, term, lastTerm) ==
    [k \in 1..n |-> <<ToString(k)>> \o (IF k = n THEN lastTerm ELSE term)]

\* The readers handed to produce: none, an empty one, the three lines of
\* test_produce, and long outputs, one of them without a final terminator.
Pipes ==
    { [present |-> FALSE, lines |-> <<>>],
      [present |-> TRUE, lines |-> <<>>],
      [present |-> TRUE, lines |-> RawLines(3, <<"\n">>, <<"\n">>)],
      [present |-> TRUE, lines |-> RawLines(MaxLines, <<"\n">>, <<"\n">>)],
      [present |-> TRUE, lines |-> RawLines(MaxLines, <<"\r", "\n">>, <<>>)] }

\* A reader of lines that keeps the terminator.
next_line_raw(raw) == raw

\* Lines::next_line: the line without its final "\n" and, then, without
\* its final "\r".
next_line(raw) ==
    LET a == IF raw # <<>> /\ raw[Len(raw)] = "\n"
             THEN SubSeq(raw, 1, Len(raw) - 1) ELSE raw
    IN  IF a # <<>> /\ a[Len(a)] = "\r" THEN SubSeq(a, 1, Len(a) - 1) ELSE a

\* The formatter of the file sink: the line and a terminator.
formatter(line) == line \o <<"\n">>

\* The number of values the channel no longer retains.
overwritten(b) == IF Len(b.sent) > Capacity THEN Len(b.sent) - Capacity ELSE 0

\* Sender::send: the value is stored unless there is no receiver.
send(b, v, receivers) ==
    IF receivers = 0 THEN b ELSE [b EXCEPT !.sent = Append(@, v)]

\* Receiver::recv of a receiver that has seen next values: the next value,
\* Lagged when it was overwritten (the receiver moves to the oldest value
\* retained), Closed when the sender is gone and nothing is left; otherwise
\* the receiver waits.
recv(b, next) ==
    IF next < overwritten(b)
    THEN [res |-> "lagged", value |-> <<>>, next |-> overwritten(b)]
    ELSE IF next < Len(b.sent)
    THEN [res |-> "value", value |-> b.sent[next + 1], next |-> next + 1]
    ELSE IF b.closed
    THEN [res |-> "closed", value |-> <<>>, next |-> next]
    ELSE [res |-> "wait", value |-> <<>>, next |-> next]

\* The receivers alive: the second subscriber, and the sink while consume runs.
Receivers == 1 + (IF sink.end = "no" THEN 1 ELSE 0)

\* produce: one iteration of the loop, a line was read and is sent.
ProduceLine ==
    /\ ~prod.returned
    /\ pipe.present
    /\ prod.pos < Len(pipe.lines)
    /\ bus' = send(bus, next_line(pipe.lines[prod.pos + 1]), Receivers)
    /\ prod' = [prod EXCEPT !.pos = @ + 1]
    /\ UNCHANGED <<pipe, mon, sink, runvars, valvars, probevars, latevars>>

\* produce: next_line fails; the error is logged, the loop ends and the
\* sender is dropped.
ProduceReadError ==
    /\ ~prod.returned
    /\ pipe.present
    /\ prod.pos < Len(pipe.lines)
    /\ prod' = [prod EXCEPT !.returned = TRUE]
    /\ bus' = [bus EXCEPT !.closed = TRUE]
    /\ UNCHANGED <<pipe, mon, sink, runvars, valvars, probevars, latevars>>

\* produce: there is no reader, or it is at EOF; produce returns and the
\* sender is dropped.
ProduceEnd ==
    /\ ~prod.returned
    /\ ~pipe.present \/ prod.pos = Len(pipe.lines)
    /\ prod' = [prod EXCEPT !.returned = TRUE]
    /\ bus' = [bus EXCEPT !.closed = TRUE]
    /\ UNCHANGED <<pipe, mon, sink, runvars, valvars, probevars, latevars>>

\* The second subscriber calls recv.
MonRecv ==
    /\ ~mon.closed
    /\ LET r == recv(bus, mon.next)
       IN  /\ r.res # "wait"
           /\ mon' = [next |-> r.next,
                      got |-> IF r.res = "value" THEN Append(mon.got, r.value) ELSE mon.got,
                      lagged |-> IF r.res = "lagged" THEN mon.lagged + 1 ELSE mon.lagged,
                      closed |-> r.res = "closed"]
    /\ UNCHANGED <<pipe, prod, bus, sink, runvars, valvars, probevars, latevars>>

\* consume: one iteration of the loop.  Any error of recv ends the loop; a
\* failed write returns.
Consume ==
    /\ sink.end = "no"
    /\ LET r == recv(bus, sink.next)
       IN  /\ r.res # "wait"
           /\ IF r.res = "value"
              THEN \E ok \in BOOLEAN :
                      sink' = [sink EXCEPT
                                  !.next = r.next,
                                  !.written = IF ok THEN Append(@, formatter(r.value)) ELSE @,
                                  !.end = IF ok THEN "no" ELSE "write"]
              ELSE sink' = [sink EXCEPT
                               !.next = r.next,
                               !.lagged = IF r.res = "lagged" THEN @ + 1 ELSE @,
                               !.end = r.res]
    /\ UNCHANGED <<pipe, prod, bus, mon, runvars, valvars, probevars, latevars>>

\* make_channel, the subscriptions, then produce is spawned.
BusInit ==
    /\ cfg = Config(Single)
    /\ RunInit
    /\ ValIdle
    /\ ProbeIdle
    /\ LateIdle
    /\ pipe \in Pipes
    /\ prod = [pos |-> 0, returned |-> FALSE]
    /\ bus = [sent |-> <<>>, closed |-> FALSE]
    /\ mon = [next |-> 0, got |-> <<>>, lagged |-> 0, closed |-> FALSE]
    /\ sink = [next |-> 0, written |-> <<>>, lagged |-> 0, end |-> "no"]

BusNext ==
    \/ ProduceLine
    \/ ProduceReadError
    \/ ProduceEnd
    \/ MonRecv
    \/ Consume

\* The tasks are scheduled fairly; a read error need not happen.
BusSpec ==
    /\ BusInit
    /\ [][BusNext]_vars
    /\ WF_vars(ProduceLine)
    /\ WF_vars(ProduceEnd)
    /\ WF_vars(MonRecv)
    /\ WF_vars(Consume)

-----------------------------------------------------------------------------
(* Start of a program (process.rs): ProcessManager::start asks the output  *)
(* factory for the stdout and the stderr bus, start_program subscribes the *)
(* monitors of the ready probe and spawns the producers.  One of the two   *)
(* buses is followed; sp.sinkAt and sp.monAt are the numbers of lines the  *)
(* bus had carried when the sink and the monitor were subscribed.          *)

Streams == {"stdout", "stderr"}

\* Producers that are spawned before the monitors subscribe.
StartStatements_produce_first ==
    <<"produce stdout", "produce stderr", "subscribe stdout", "subscribe stderr">>

\* start_program after create_child_process, statement by statement.
StartStatements ==
    <<"subscribe stdout", "subscribe stderr", "produce stdout", "produce stderr">>

\* Sender::subscribe: the new receiver sees the values sent from now on.
subscribe(b) == Len(b.sent)

\* ProcessManager::start: the output factory makes the channel and spawns
\* consume with the receiver that make_channel returned.
StartFactory ==
    /\ sp.pc = 0
    /\ bus' = [sent |-> <<>>, closed |-> FALSE]
    /\ sink' = [next |-> 0, written |-> <<>>, lagged |-> 0, end |-> "no"]
    /\ sp' = [sp EXCEPT !.pc = 1, !.sinkAt = 0]
    /\ UNCHANGED <<pipe, prod, mon, runvars, valvars, probevars, travvars, listvars, queuevars>>

\* The next statement of start_program.
StartStatement ==
    /\ sp.pc \in 1..Len(StartStatements)
    /\ LET st == StartStatements[sp.pc] IN
       /\ IF st = "subscribe " \o sp.stream
          THEN /\ mon' = [mon EXCEPT !.next = subscribe(bus)]
               /\ sp' = [sp EXCEPT !.pc = @ + 1, !.monAt = subscribe(bus)]
               /\ UNCHANGED prod
          ELSE IF st = "produce " \o sp.stream
          THEN /\ prod' = [pos |-> 0, returned |-> FALSE]
               /\ sp' = [sp EXCEPT !.pc = @ + 1]
               /\ UNCHANGED mon
          ELSE /\ sp' = [sp EXCEPT !.pc = @ + 1]
               /\ UNCHANGED <<mon, prod>>
    /\ UNCHANGED <<pipe, bus, sink, runvars, valvars, probevars, travvars, listvars, queuevars>>

\* The monitor (the ready probe) calls recv once it is subscribed.
StartMonRecv == sp.monAt >= 0 /\ MonRecv

\* consume runs once the factory has spawned it.
StartConsume == sp.sinkAt >= 0 /\ Consume

StartInit ==
    /\ cfg = Config(Single)
    /\ RunInit
    /\ ValIdle
    /\ ProbeIdle
    /\ \E p \in Pipes : pipe = [p EXCEPT !.present = TRUE]
    /\ prod = [pos |-> 0, returned |-> TRUE]
    /\ bus = [sent |-> <<>>, closed |-> TRUE]
    /\ mon = [next |-> 0, got |-> <<>>, lagged |-> 0, closed |-> FALSE]
    /\ sink = [next |-> 0, written |-> <<>>, lagged |-> 0, end |-> "no"]
    /\ \E str \in Streams : sp = [pc |-> 0, stream |-> str, sinkAt |-> -1, monAt |-> -1]
    /\ TravIdle
    /\ ListIdle
    /\ QueueIdle

StartNext ==
    \/ StartFactory
    \/ StartStatement
    \/ ProduceLine
    \/ ProduceReadError
    \/ ProduceEnd
    \/ StartMonRecv
    \/ StartConsume

StartProgramSpec == StartInit /\ [][StartNext]_vars

-----------------------------------------------------------------------------
(* Traversal (graph.rs): roots, leaves, expand and expand_back called on   *)
(* the graph of a valid configuration, for one handle and one predicate;   *)
(* the predicate is the set of the handles it accepts.                     *)

\* The depends lists of a program that names programs listed before it.
EarlierDepends(i) ==
    UNION {{ix \in [1..n -> 1..(i - 1)] : \A k \in 1..(n - 1) : ix[k] < ix[k + 1]} :
           n \in 0..MaxDepends}

\* The configurations in which every program depends on earlier ones only.
LayeredDepends(n) == {d \in [1..n -> UNION {EarlierDepends(i) : i \in 1..n}] :
                         \A i \in 1..n : d[i] \in EarlierDepends(i)}

\* The configuration of the tests expand and expand_back, and the same
\* with a second leaf; a diamond; a program listed before its dependency;
\* depends lists that name the dependencies last first; depends lists that
\* name a program twice.
TravShapes ==
    { << <<>>, <<>>, <<1, 2>>, <<3>> >>,
      << <<>>, <<>>, <<1, 2>>, <<3>>, <<3>> >>,
      << <<>>, <<1>>, <<1>>, <<2, 3>> >>,
      << <<2>>, <<>> >>,
      << <<>>, <<>>, <<2, 1>> >>,
      << <<>>, <<1, 1>> >>,
      << <<>>, <<1>>, <<2, 1, 2>> >> }

TravGraphs ==
    {Config(d) : d \in TravShapes \cup UNION {LayeredDepends(n) : n \in 1..MaxPrograms}}

TravRoots ==
    /\ "roots" \notin DOMAIN yielded
    /\ yielded' = yielded @@ ("roots" :> roots(trav.c))
    /\ UNCHANGED <<trav, runvars, valvars, probevars, busvars, startvars, listvars, queuevars>>

TravLeaves ==
    /\ "leaves" \notin DOMAIN yielded
    /\ yielded' = yielded @@ ("leaves" :> leaves(trav.c))
    /\ UNCHANGED <<trav, runvars, valvars, probevars, busvars, startvars, listvars, queuevars>>

TravExpand ==
    /\ "expand" \notin DOMAIN yielded
    /\ yielded' = yielded @@ ("expand" :> expand(trav.c, trav.h, trav.visited))
    /\ UNCHANGED <<trav, runvars, valvars, probevars, busvars, startvars, listvars, queuevars>>

TravExpandBack ==
    /\ "expand_back" \notin DOMAIN yielded
    /\ yielded' = yielded @@ ("expand_back" :> expand_back(trav.c, trav.h, trav.visited))
    /\ UNCHANGED <<trav, runvars, valvars, probevars, busvars, startvars, listvars, queuevars>>

TravInit ==
    /\ cfg = Config(Single)
    /\ RunInit
    /\ ValIdle
    /\ ProbeIdle
    /\ BusIdle
    /\ StartIdle
    /\ ListIdle
    /\ QueueIdle
    /\ \E c \in TravGraphs : \E h \in all(c) : \E visited \in SUBSET all(c) :
          trav = [c |-> c, h |-> h, visited |-> visited]
    /\ yielded = <<>>

TravNext ==
    \/ TravRoots
    \/ TravLeaves
    \/ TravExpand
    \/ TravExpandBack

TraversalSpec == TravInit /\ [][TravNext]_vars

-----------------------------------------------------------------------------
(* Execution list (executionlist.rs): Execution::from_config polls the     *)
(* list until poll() returns true and then reaps it.  A program is its     *)
(* name, its depends list and whether it is enabled.                       *)

\* ExecutionList::from_system over a system that System::validate accepts.
ListSystems ==
    {[i \in 1..Len(s) |-> [name |-> s[i].name, depends |-> s[i].depends,
                           enabled |-> i \notin off]] :
        s \in {t \in Systems : System_validate(t) = "ok"},
        off \in SUBSET (1..MaxPrograms)}

\* is_startable that asks for nothing.
is_startable_always(ready, prog) == TRUE

\* ExecutionList::is_startable.
is_startable(ready, prog) == \A k \in 1..Len(prog.depends) : prog.depends[k] \in ready

\* The position at which the second loop of poll() breaks: the first pending
\* program that is disabled or startable; 0 when the loop runs to its end.
poll_break(pend, ready) ==
    LET hits == {pos \in 1..Len(pend) :
                    ~pend[pos].enabled \/ is_startable(ready, pend[pos])}
    IN  IF hits = {} THEN 0 ELSE CHOOSE pos \in hits : \A q \in hits : pos <= q

remove(seq, pos) == SubSeq(seq, 1, pos - 1) \o SubSeq(seq, pos + 1, Len(seq))

\* ExecutionList::poll, called by the loop of Execution::from_config: the
\* running programs that are not yet ready are asked is_ready(); then one
\* pending program at most is dropped (disabled) or started.  A failed
\* start ends from_config with the error.
ListPoll ==
    /\ elist.state = "polling"
    /\ \E now \in SUBSET {k \in 1..Len(elist.running) :
                             elist.running[k].name \notin elist.ready} :
       \E ok \in BOOLEAN :
          LET ready == elist.ready \cup {elist.running[k].name : k \in now}
              pos   == poll_break(elist.pending, ready)
              start == pos # 0 /\ elist.pending[pos].enabled
              pend  == IF pos = 0 THEN elist.pending ELSE remove(elist.pending, pos)
              run   == IF start THEN Append(elist.running, elist.pending[pos])
                       ELSE elist.running
          IN  IF start /\ ~ok
              THEN elist' = [elist EXCEPT !.ready = ready, !.state = "error"]
              ELSE elist' = [elist EXCEPT
                                !.ready = ready,
                                !.pending = pend,
                                !.running = run,
                                !.state = IF pend = <<>> /\ Len(run) = Cardinality(ready)
                                          THEN "started" ELSE "polling"]
    /\ UNCHANGED <<runvars, valvars, probevars, busvars, startvars, travvars, queuevars>>

\* ExecutionList::reap, called once poll() returned true.
ListReap ==
    /\ elist.state = "started"
    /\ elist' = [elist EXCEPT !.reaped = elist.running, !.running = <<>>,
                              !.state = "reaped"]
    /\ UNCHANGED <<runvars, valvars, probevars, busvars, startvars, travvars, queuevars>>

ListInit ==
    /\ cfg = Config(Single)
    /\ RunInit
    /\ ValIdle
    /\ ProbeIdle
    /\ BusIdle
    /\ StartIdle
    /\ TravIdle
    /\ QueueIdle
    /\ \E s \in ListSystems :
          elist = [sys |-> s, pending |-> s, running |-> <<>>, ready |-> {},
                   reaped |-> <<>>, state |-> "polling"]

ListNext ==
    \/ ListPoll
    \/ ListReap

ExecutionListSpec == ListInit /\ [][ListNext]_vars

-----------------------------------------------------------------------------
(* Bounded queues (mpsc::channel): a send waits while the queue holds cap  *)
(* messages.  The orchestrator sends the commands of a handler one after   *)
(* the other and does nothing else in between, and so does the manager     *)
(* with its events: cmdq and evq hold the messages queued, followed by     *)
(* those that the sender, waiting in send, has still to put in.            *)

MaxCapacity == 2

\* Executor::send_tx waits: the command queue is full.
ExBlocked == Len(cmdq) > cap

\* ProcessManager::send waits: the event queue is full.
PMBlocked == Len(evq) > cap

\* Four programs without dependencies, a chain of two, and the triangle,
\* over queues of every capacity up to MaxCapacity.
QueueInit ==
    /\ cfg \in {Config(Roots4), Config(Pair), [Config(Triangle) EXCEPT !.critical = {2}]}
    /\ RunInit
    /\ ValIdle
    /\ ProbeIdle
    /\ BusIdle
    /\ StartIdle
    /\ TravIdle
    /\ ListIdle
    /\ cap \in 1..MaxCapacity

QueueNext ==
    \/ ~ExBlocked /\ ExStart
    \/ ~ExBlocked /\ ExInit
    \/ ~ExBlocked /\ ExLoop
    \/ ~ExBlocked /\ ExShutdown
    \/ ~PMBlocked /\ PMStartSpawn
    \/ ~PMBlocked /\ PMStartSpawnFail
    \/ ~PMBlocked /\ PMStartReady
    \/ ~PMBlocked /\ PMStartFail
    \/ ~PMBlocked /\ PMStop
    \/ ~PMBlocked /\ PMCheckAlive
    \/ ~PMBlocked /\ PMSignal
    \/ PMTeardown
    \/ Signal
    \/ ChildExit

QueueSpec == QueueInit /\ [][QueueNext]_vars

-----------------------------------------------------------------------------
(* Helpers of the properties *)

\* The orchestrator consumes an event of this type in the step.
ExConsumes(type) ==
    /\ ex_pc \in {"init", "loop", "shutdown"}
    /\ evq # <<>>
    /\ Head(evq).type = type
    /\ evq' = Tail(evq)

\* The commands the orchestrator emits in the step.
NewCmds ==
    IF Len(cmdq') > Len(cmdq) THEN SubSeq(cmdq', Len(cmdq) + 1, Len(cmdq')) ELSE <<>>

NewStops == {NewCmds[k].h : k \in {j \in 1..Len(NewCmds) : NewCmds[j].type = "Stop"}}

DependencySet(h) == Range(dependencies(cfg, h))
DependeeSet(h) == Range(dependees(cfg, h))

-----------------------------------------------------------------------------
(* Start and stop order *)

\* C1: Start(p) is emitted only after the orchestrator consumed Started(d) of
\* every dependency d of p, and the manager emits Started(p) only after
\* Started(d) of every dependency d.
C1_StartOrder ==
    /\ \A p \in startSent : DependencySet(p) \subseteq startedRecv
    /\ \A p \in startedEmit : DependencySet(p) \subseteq startedEmit

\* A program with two dependencies has been started and reported Started.
C1_Witness ==
    \E p \in startedEmit : Cardinality(DependencySet(p)) >= 2

\* C2: no Stop(d) is emitted while the child of a dependee of d is alive,
\* also when shutdown begins while the dependee is being started.
C2_StopOrderCommands ==
    [][\A d \in NewStops : \A p \in DependeeSet(d) : child[p] # "alive"]_vars

\* C3: in a shutdown in which no child exits on its own, Stopped(d) is
\* emitted only after Stopped(p) of every dependee p of d that was started
\* (d and p both enabled, so both have a child).
C3_StopOrderEvents ==
    [][\A d \in (stoppedEmit' \ stoppedEmit) \ cfg.disabled :
          exitCount = 0 =>
             \A p \in DependeeSet(d) \ cfg.disabled :
                p \in startedEmit => p \in stoppedEmit]_vars

-----------------------------------------------------------------------------
(* Shutdown triggers *)

CriticalEnabled == cfg.critical \ cfg.disabled

\* The orchestrator consumes the Stopped of a critical, enabled program and
\* is in shutdown when the step ends, the leaves having been sent Stop.
C4_Step ==
    (ExConsumes("Stopped") /\ Head(evq).h \in CriticalEnabled)
       => /\ ex_pc' \in {"shutdown", "done"}
          /\ ex_pc \in {"init", "loop"} => Range(leaves(cfg)) \subseteq NewStops

AllStopped ==
    \A h \in all(cfg) : child[h] # "none" => child[h] = "dead" /\ h \in stoppedRecv

\* C6: after SIGINT/SIGTERM, eventually every spawned child has stopped,
\* its Stopped was delivered and run has returned.
C6_ShutdownLiveness ==
    (sigCount > 0) ~> (ex_pc = "done" /\ AllStopped)

\* C7: with probes that succeed and no child exiting, every program is
\* started and running settles on the enabled programs until a shutdown
\* trigger.
C7_StartupLiveness ==
    /\ <>(sigCount > 0 \/ startedRecv = all(cfg))
    /\ <>[](sigCount > 0 \/ running = Enabled(cfg))

\* C8: out of startup, run goes on only while something is running; during
\* startup a non-critical stop does not end the run, whatever is running.
C8_NaturalCompletion ==
    /\ [](ex_pc \in {"loop", "shutdown"} => running # {})
    /\ [](ex_pc = "loop" => pending = {})
    /\ [][(ex_pc = "init" /\ ExConsumes("Stopped") /\ Head(evq).h \notin CriticalEnabled)
            => ex_pc' = "init"]_vars

\* run returned Ok with no signal, no critical stop and no error.
C8_Witness ==
    /\ ex_pc = "done"
    /\ result.kind = "ok"
    /\ sigCount = 0
    /\ firstCrit = NoStatus
    /\ pending = {}
    /\ stoppedRecv # {}

\* C9: a Shutdown event consumed after an earlier one, or during a
\* shutdown, changes nothing in the orchestrator and emits no command.
C9_IdempotentShutdown ==
    [][(ExConsumes("Shutdown") /\ (sdSeen >= 1 \/ ex_pc = "shutdown"))
         => /\ NewCmds = <<>>
            /\ UNCHANGED <<ex_pc, sd_call, running, status, result, pending>>]_vars

\* Two Shutdown events were consumed.
C9_Witness == sdSeen >= 2

RecordedOk(stat) == stat = NoStatus \/ stat.st = "success"

\* C10 as stated: run returns Ok iff no status is recorded or it is success,
\* the error of the recorded program otherwise; the recorded status is that
\* of the first critical, enabled program that stopped.
C10_FinalResult ==
    /\ status = firstCrit
    /\ ex_pc = "done" =>
          IF RecordedOk(status) THEN result.kind = "ok"
          ELSE result = [kind |-> "failed", h |-> status.h, st |-> status.st]

\* C10 amended: as stated when run is not ended by an Err event; an Err
\* event's error is returned whatever status is recorded.
C10_FinalResultAmended ==
    /\ status = firstCrit
    /\ (ex_pc = "done" /\ ~errSeen) =>
          IF RecordedOk(status) THEN result.kind = "ok"
          ELSE result = [kind |-> "failed", h |-> status.h, st |-> status.st]
    /\ (ex_pc = "done" /\ errSeen) => result.kind = "error"

\* run returned the failure of the first of two critical programs that stopped.
C10_Witness ==
    /\ ex_pc = "done"
    /\ result.kind = "failed"
    /\ Cardinality(stoppedRecv \cap CriticalEnabled) >= 2

-----------------------------------------------------------------------------
(* Exit code, disabled and completed programs *)

\* C11: when shutdown is triggered by a Shutdown event and no child exits on
\* its own (so that every stop, a critical one too, answers a Stop command
\* sent after the trigger) and no error occurs, run returns Ok.
C11_CleanShutdown ==
    (ex_pc = "done" /\ sdSeen >= 1 /\ exitCount = 0 /\ ~errSeen) => result.kind = "ok"

\* C12: for the Start of a disabled program the manager spawns nothing and
\* emits Started(h) immediately followed by Stopped(h, None).
C12_DisabledVacuity ==
    [][\A h \in cfg.disabled :
          h \in startedEmit' \ startedEmit
             => /\ evq' = evq \o <<Started(h), Stopped(h, "none")>>
                /\ child'[h] = "none"]_vars

\* The enabled programs with a disabled direct dependency.
DisabledDependees == {p \in Enabled(cfg) : DependencySet(p) \cap cfg.disabled # {}}

NewStarts == {NewCmds[k].h : k \in {j \in 1..Len(NewCmds) : NewCmds[j].type = "Start"}}

\* The unlocking rule of init: consuming Started(h) sends Start to exactly
\* the dependees of h none of whose dependencies is pending, running or not;
\* a non-critical Stopped changes neither pending nor the course of init.
C14_Unlock ==
    /\ [][(ex_pc = "init" /\ ExConsumes("Started"))
            => NewStarts = {p \in DependeeSet(Head(evq).h) :
                              DependencySet(p) \cap (pending \ {Head(evq).h}) = {}}]_vars
    /\ [][(ex_pc = "init" /\ ExConsumes("Stopped") /\ Head(evq).h \notin CriticalEnabled)
            => (pending' = pending /\ NewCmds = <<>> /\ ex_pc' = "init")]_vars

C15_StopOnlyRunning ==
    [][NewStops \subseteq running \cup running']_vars

-----------------------------------------------------------------------------
(* Process manager: stop, probe failure, spawn failure *)

\* The signals the manager sends to h in the step.
NewSignals(h) == SubSeq(sent'[h], Len(sent[h]) + 1, Len(sent'[h]))

\* The manager emits this event in the step.
PMEmits(e) == evq' = Append(evq, e)

\* C16: a Stop of a live child sends SIGTERM first and SIGKILL only after
\* it; 'terminated' is logged when SIGTERM sufficed, 'killed' when SIGKILL
\* was needed, and the child is dead when Stopped is emitted.
C16_TerminationSequence ==
    [][\A h \in all(cfg) :
          (h \in stoppedEmit' \ stoppedEmit /\ child[h] = "alive")
             => /\ child'[h] = "dead"
                /\ NewSignals(h) \in {<<"TERM">>, <<"TERM", "KILL">>}
                /\ report'[h] = IF NewSignals(h) = <<"TERM">> THEN "terminated" ELSE "killed"
                /\ \E st \in {"success", "failure"} : PMEmits(Stopped(h, st))]_vars

\* A child ignored SIGTERM and was killed.
C16_Witness ==
    \E h \in stoppedEmit : sent[h] = <<"TERM", "KILL">> /\ report[h] = "killed"

\* The start in progress ends without Started.
ProbeFails ==
    /\ pm = "probing"
    /\ pm' = "idle"
    /\ pm_h \notin startedEmit'

C18_TimerNotBounded ==
    [][(pm = "probing" /\ pm_h \in cfg.timer /\ pm' = "idle") => pm_h \in startedEmit']_vars

\* The manager takes a Start of an enabled program off the queue and spawns nothing.
SpawnFails ==
    /\ pm = "idle"
    /\ cmdq # <<>>
    /\ Head(cmdq).type = "Start"
    /\ Head(cmdq).h \notin cfg.disabled
    /\ cmdq' = Tail(cmdq)
    /\ child'[Head(cmdq).h] = "none"

\* C19: a failed spawn yields one Err and no Started; no record is added
\* and the records and children of the other programs are unchanged.
C19_SpawnFailure ==
    [][SpawnFails
         => /\ PMEmits(Err)
            /\ UNCHANGED <<procs, child, sent, startedEmit, completed>>
            /\ pm' = "idle"]_vars

\* A spawn failed: the Start was taken and there is no child.
C19_Witness ==
    /\ Err \in Range(evq)
    /\ \E h \in startSent \ cfg.disabled :
          child[h] = "none" /\ Start(h) \notin Range(cmdq)

\* C20: a Stop for a handle that is not tracked emits nothing, sends no
\* signal and leaves the table alone; Stopped(h) is emitted for a tracked
\* handle only, hence at most once for every started program.
C20_StopUnknown ==
    /\ [][(pm = "idle" /\ cmdq # <<>> /\ cmdq' = Tail(cmdq)
            /\ Head(cmdq).type = "Stop" /\ Head(cmdq).h \notin procs)
            => UNCHANGED <<evq, procs, child, sent, report>>]_vars
    /\ [][\A h \in all(cfg) : \A st \in {"none", "success", "failure"} :
             PMEmits(Stopped(h, st)) => (h \in procs /\ h \notin stoppedEmit)]_vars

\* A Stop arrived for a program whose Stopped had been emitted.
C20_Witness ==
    stopIgnored \cap stoppedEmit # {}

\* The Shutdown events the manager has sent so far: those the orchestrator
\* consumed and those still in the event queue.
ShutdownsDelivered ==
    sdSeen + Cardinality({k \in 1..Len(evq) : evq[k] = Shutdown})

\* C21: however many SIGINT/SIGTERM arrive, at most one Shutdown event is
\* delivered to the orchestrator (later signals produce no further event).
C21_SingleShutdownEvent ==
    ShutdownsDelivered <= 1

\* C22: once the orchestrator has returned and the manager is gone, no child
\* that was spawned is alive.
C22_NoChildOutlives ==
    pm = "gone" => \A h \in all(cfg) : child[h] # "alive"

\* run returned an error while a started child was alive, and the child was
\* killed when the manager was dropped.
C22_Witness ==
    /\ pm = "gone"
    /\ result.kind = "error"
    /\ \E h \in startedEmit : child[h] = "dead" /\ sent[h] = <<"KILL">>

\* C23: unless run returns first, every root is eventually spawned, even
\* while the ready probe of another root stays pending (a disabled root has
\* no child).
C23_IndependentRoots ==
    <>(\/ ex_pc = "done"
       \/ \A h \in Range(roots(cfg)) : h \in cfg.disabled \/ child[h] # "none")

NamesUnique(s) ==
    \A i, j \in 1..Len(s) : s[i].name = s[j].name => i = j

DependsExist(s) ==
    \A i \in 1..Len(s) : \A k \in 1..Len(s[i].depends) :
        \E j \in 1..Len(s) : s[j].name = s[i].depends[k]

HasEntryPoint(s) ==
    \E i \in 1..Len(s) : s[i].depends = <<>>

\* Program n lists m in its depends.
DependsOn(s, n, m) ==
    \E i \in 1..Len(s) : s[i].name = n /\ m \in Range(s[i].depends)

\* No chain of depends entries leads from a name back to itself.
Acyclic(s) ==
    \A len \in 2..(Len(Names) + 1) :
        \A p \in [1..len -> Range(Names)] :
            ~(/\ p[1] = p[len]
              /\ \A k \in 1..(len - 1) : DependsOn(s, p[k], p[k + 1]))

\* C24: a Graph is returned iff the names are unique, every depends entry
\* names a program, some program has an empty depends list and the
\* dependency relation has no cycle; otherwise an error is returned.
C24_Validation ==
    outcome # "none" =>
        (outcome = "ok" <=>
            /\ NamesUnique(sys)
            /\ DependsExist(sys)
            /\ HasEntryPoint(sys)
            /\ Acyclic(sys))

\* A system of three programs, one with two dependencies, is accepted.
C24_Witness ==
    /\ outcome = "ok"
    /\ Len(sys) = 3
    /\ \E i \in 1..3 : Len(sys[i].depends) = 2

\* C25: the Completed signal reports ready exactly when the child exited
\* with a success status, and an error when it exited with another status or
\* was killed by a signal.
C25_CompletedProbe ==
    rs.kind = "completed" =>
        \A k \in 1..Len(polls) :
            /\ polls[k] = "true" <=> world.exit = "success"
            /\ world.exit \in {"failure", "signaled"} => polls[k] = "err"

\* C26: once poll() has returned true, every later poll() of the same
\* signal returns true.
C26_ReadinessMonotone ==
    \A i, j \in 1..Len(polls) :
        (i < j /\ polls[i] = "true") => polls[j] = "true"

\* The end, in the file, of the first complete line that matches (0: none).
RECURSIVE FirstMatchEnd(_, _)
FirstMatchEnd(file, from) ==
    IF "\n" \notin Range(SubSeq(file, from + 1, Len(file))) THEN 0
    ELSE LET raw == read_line(file, from)
         IN  IF Regex_is_match(trim_end_matches(raw)) THEN from + Len(raw)
             ELSE FirstMatchEnd(file, from + Len(raw))

\* C27: the Stdout signal reports ready only when a complete line that
\* matches has been written, and it has reported ready once it has read
\* past the first such line.
C27_StdoutReady ==
    /\ [][(rs.kind = "stdout" /\ rs.reader /\ polls' = Append(polls, "true"))
            => FirstMatchEnd(world.file, 0) # 0]_vars
    /\ [](rs.kind = "stdout" /\ rs.reader /\ FirstMatchEnd(world.file, 0) # 0
            => rs.pos < FirstMatchEnd(world.file, 0))

\* The texts of the lines the producer has read from the pipe, in order.
LinesRead ==
    [k \in 1..prod.pos |-> SelectSeq(pipe.lines[k], LAMBDA b : b \notin {"\r", "\n"})]

IsPrefix(s, t) == Len(s) <= Len(t) /\ \A k \in 1..Len(s) : s[k] = t[k]

\* What the sink wrote, without the terminator its formatter added.
SinkTexts ==
    [k \in 1..Len(sink.written) |-> SubSeq(sink.written[k], 1, Len(sink.written[k]) - 1)]

\* C28: a subscriber that never lagged has received the lines the producer
\* read, once each, in order and without their terminator; it sees the bus
\* closed only after the producer returned and it received them all, and it
\* does see the bus closed in the end.
C28_BusDelivery ==
    /\ [](mon.lagged = 0 => IsPrefix(mon.got, LinesRead))
    /\ [](sink.lagged = 0 => IsPrefix(SinkTexts, LinesRead))
    /\ []((mon.closed /\ mon.lagged = 0) => (prod.returned /\ mon.got = LinesRead))
    /\ <>mon.closed

\* A subscriber received a long output whose last line has no terminator,
\* without lagging, and then saw the bus closed.
C28_Witness ==
    /\ mon.closed
    /\ mon.lagged = 0
    /\ Len(mon.got) = MaxLines
    /\ "\n" \notin Range(pipe.lines[MaxLines])

\* The bus is closed and the sink has received everything that was sent.
SinkDrained == bus.closed /\ sink.next = Len(bus.sent)

\* C29: a sink none of whose writes failed stops only when the bus is closed
\* and drained, also after its queue overflowed.
C29_LossyBroadcast ==
    sink.end \notin {"no", "write"} => SinkDrained

\* C30: a sink whose queue never overflowed stops only when the bus is
\* closed and drained, also after a write failed.
C30_SinkFailOpen ==
    (sink.end # "no" /\ sink.lagged = 0) => SinkDrained

\* C31: for every spawned child, the sink and the monitor of the ready probe
\* are subscribed to its stdout and stderr bus before the producer publishes
\* the first line: once the bus carries a line, both were subscribed when it
\* carried none.
C31_SubscribeBeforeProduce ==
    bus.sent # <<>> /\ sp.pc >= 0 => sp.sinkAt = 0 /\ sp.monAt = 0

\* The monitor, subscribed before the producer was spawned, received the
\* first line of the child.
C31_Witness ==
    /\ sp.pc > Len(StartStatements)
    /\ sp.monAt = 0
    /\ mon.got # <<>>
    /\ mon.got[1] = next_line(pipe.lines[1])

\* The programs whose depends list names h.
DirectDependees(c, h) == {s \in all(c) : h \in Range(c.depends[s])}

\* The programs that the depends list of h names.
DirectDependencies(c, h) == Range(c.depends[h])

\* C32: expand(h, visited) yields exactly the direct dependees s of h such
\* that every direct dependency of s satisfies visited: nothing else, no
\* transitive dependee, and each such s once.
C32_Expand ==
    "expand" \in DOMAIN yielded =>
        LET want == {s \in DirectDependees(trav.c, trav.h) :
                        DirectDependencies(trav.c, s) \subseteq trav.visited}
        IN  /\ Range(yielded["expand"]) = want
            /\ Len(yielded["expand"]) = Cardinality(want)

\* C33: expand_back(h, visited) yields exactly the direct dependencies p of
\* h such that every direct dependee of p satisfies visited; leaves() yields
\* exactly the programs that no program depends on and roots() exactly the
\* programs with an empty depends list.
C33_ExpandBack ==
    /\ "expand_back" \in DOMAIN yielded =>
          Range(yielded["expand_back"]) =
              {p \in DirectDependencies(trav.c, trav.h) :
                  DirectDependees(trav.c, p) \subseteq trav.visited}
    /\ "leaves" \in DOMAIN yielded =>
          /\ Range(yielded["leaves"]) = {p \in all(trav.c) : DirectDependees(trav.c, p) = {}}
          /\ Len(yielded["leaves"]) = Cardinality(Range(yielded["leaves"]))
    /\ "roots" \in DOMAIN yielded =>
          /\ Range(yielded["roots"]) = {p \in all(trav.c) : trav.c.depends[p] = <<>>}
          /\ Len(yielded["roots"]) = Cardinality(Range(yielded["roots"]))

\* Every dependee of the handle has stopped but one, and expand_back yields
\* some dependencies of the handle and withholds another.
C33_Witness ==
    /\ DOMAIN yielded = {"roots", "leaves", "expand", "expand_back"}
    /\ yielded["expand_back"] # <<>>
    /\ Range(yielded["expand_back"]) # DirectDependencies(trav.c, trav.h)
    /\ yielded["leaves"] # yielded["roots"]

\* The handles are yielded in the order of the configuration.
InConfigurationOrder(out) == \A k \in 1..(Len(out) - 1) : out[k] < out[k + 1]

\* C34: roots(), leaves(), expand and expand_back each yield their handles
\* in the order in which the programs appear in the configuration.
C34_InsertionOrder ==
    \A op \in DOMAIN yielded : InConfigurationOrder(yielded[op])

\* C34, amended: roots() and leaves() yield their handles in the order of
\* the configuration; expand yields the dependees the last listed first, and
\* expand_back yields the dependencies in the reverse of the order of the
\* depends list of the handle.
C34_InsertionOrderAmended ==
    /\ "roots" \in DOMAIN yielded => InConfigurationOrder(yielded["roots"])
    /\ "leaves" \in DOMAIN yielded => InConfigurationOrder(yielded["leaves"])
    /\ "expand" \in DOMAIN yielded =>
          \A k \in 1..(Len(yielded["expand"]) - 1) :
              yielded["expand"][k] >= yielded["expand"][k + 1]
    /\ "expand_back" \in DOMAIN yielded =>
          yielded["expand_back"] =
              SelectSeq(Reverse(trav.c.depends[trav.h]),
                        LAMBDA p : DirectDependees(trav.c, p) \subseteq trav.visited)

\* expand and expand_back each yielded two different handles.
C34_Witness ==
    /\ DOMAIN yielded = {"roots", "leaves", "expand", "expand_back"}
    /\ Cardinality(Range(yielded["expand"])) >= 2
    /\ Cardinality(Range(yielded["expand_back"])) >= 2
    /\ Len(yielded["roots"]) >= 2

-----------------------------------------------------------------------------
(* Events outside shutdown, Start commands *)

AfterDependencies(progs) ==
    \A k \in 1..Len(progs) : \A d \in Range(progs[k].depends) :
        \E j \in 1..(k - 1) : progs[j].name = d

\* C36: ExecutionList starts programs in dependency order: poll() spawns a
\* pending program only when every name in its depends is in the ready set,
\* the ready set holds started programs only, and reap() returns the programs
\* in the order they were started, so that every program comes after all of
\* its dependencies.
C36_DependencyOrder ==
    /\ [](AfterDependencies(elist.running) /\ AfterDependencies(elist.reaped))
    /\ [](elist.ready \subseteq {elist.running[k].name : k \in 1..Len(elist.running)}
                              \cup {elist.reaped[k].name : k \in 1..Len(elist.reaped)})
    /\ [][/\ Len(elist.running') > Len(elist.running) =>
                Range(elist.running'[Len(elist.running')].depends) \subseteq elist.ready'
          /\ elist.state' = "reaped" /\ elist.state # "reaped" =>
                elist.reaped' = elist.running]_vars

\* The configuration of the test starts_in_dependency_order, which lists
\* last, first, middle, was reaped as first, middle, last.
C36_Witness ==
    /\ elist.state = "reaped"
    /\ Len(elist.reaped) = 3
    /\ elist.reaped = <<elist.sys[2], elist.sys[3], elist.sys[1]>>
    /\ elist.sys[1].depends = <<elist.sys[3].name>>
    /\ elist.sys[3].depends = <<elist.sys[2].name>>

\* The Start commands the orchestrator emits in the step, in order.
StartsEmitted == SelectSeq(NewCmds, LAMBDA c : c.type = "Start")

\* C37: in any run, the orchestrator emits at most one Start command per
\* program, whatever the shape of the graph and the interleaving of events.
C37_StartOnce ==
    [][\A k \in 1..Len(StartsEmitted) :
          /\ StartsEmitted[k].h \notin startSent
          /\ \A j \in 1..(k - 1) : StartsEmitted[j].h # StartsEmitted[k].h]_vars

\* C38: once shutdown has begun the orchestrator emits no Start command; a
\* Started event consumed during shutdown adds the program to running and
\* is answered in the same step with Stop for that program and nothing
\* else; none of its dependees has been sent Start, and none is later.
C38_NoStartInShutdown ==
    /\ [][ex_pc' \in {"shutdown", "done"} => StartsEmitted = <<>>]_vars
    /\ [][(ex_pc = "shutdown" /\ ExConsumes("Started"))
            => /\ Head(evq).h \in running'
               /\ NewCmds = <<Stop(Head(evq).h)>>
               /\ DependeeSet(Head(evq).h) \cap startSent' = {}]_vars

\* A program with a dependee was reported Started during shutdown (init had
\* not seen it), it was stopped, and run returned with the dependee never
\* started.
C38_Witness ==
    /\ ex_pc = "done"
    /\ \E h \in pending \cap startedRecv \cap stoppedRecv :
          /\ DependeeSet(h) # {}
          /\ DependeeSet(h) \cap startSent = {}

-----------------------------------------------------------------------------
(* Shutdown: every running program is asked to stop *)

\* Stop(h) was emitted: it is in the command queue, or the manager took it
\* (and ignored it, or stopped h and emitted Stopped(h)); or h stopped on its
\* own and its Stopped was emitted.
StopAsked(h) ==
    \/ \E k \in 1..Len(cmdq) : cmdq[k] = Stop(h)
    \/ h \in stopIgnored
    \/ h \in stoppedEmit

\* C40: during shutdown every program in running is eventually sent Stop
\* (or run returns first), so the loop of shutdown() never waits forever on
\* a program that was never asked to stop.
C40_ShutdownStopsAll ==
    \A h \in 1..MaxPrograms :
        [](ex_pc = "shutdown" /\ h \in running
             => <>(StopAsked(h) \/ ex_pc = "done"))

-----------------------------------------------------------------------------
(* Bounded queues *)

\* C39: the orchestrator is never waiting to send on a full command queue
\* while the process manager is waiting to send on a full event queue.
C39_NoSendDeadlock == ~(ExBlocked /\ PMBlocked)

====
